---- MODULE Spec2Model ----
(***************************************************************************)
(* Model of the authentication / profile service: the startup connection   *)
(* bootstrap (server.js, config/db.js), the request pipeline (logging      *)
(* middleware, router, request gate) and the four handlers (signup, login, *)
(* getProfile, updateProfile).  Every awaited store or crypto call of a    *)
(* handler is a suspension point: a handler is split into one action per   *)
(* continuation, and the continuations of concurrent requests interleave.  *)
(* The two server.js files are the two variants of the process: "bounded"  *)
(* (retry counter; its module load throws at the CORS setup, which names   *)
(* an undeclared allowedOrigins, so it never listens) and "unbounded" (no  *)
(* counter, logging before the body parsers).  The CORS headers of a       *)
(* response are not part of the model.  models/User.js (schema, pre-save   *)
(* hash, matchPassword) and middleware/authMiddleware.js (protect) are not *)
(* among the sources: the hasher and the request gate are modelled from    *)
(* the specification (sections 4.2 and 4.3), and what rests on them is     *)
(* marked where it is stated.  save() is Mongoose's: Modified and Merge    *)
(* model its documented behaviour of writing only the modified paths.      *)
(***************************************************************************)
EXTENDS Integers, Sequences, FiniteSets, TLC

VARIABLES variant, boot, closing, nodeEnv, retryCount, exitCode, store, nextId, reqs,
          arrived, console, sent

vars == <<variant, boot, closing, nodeEnv, retryCount, exitCode, store, nextId, reqs,
          arrived, console, sent>>

\* what a request handler leaves alone
proc == <<variant, boot, closing, nodeEnv, retryCount, exitCode, arrived>>

(* ------------------------------ bounds -------------------------------- *)

\* number of requests the clients send in one behaviour
MaxReqs == 2

(* ------------------------- program constants -------------------------- *)

MAX_RETRIES == 5
TokenTTLDays == 30
LogLimit == 100

(* ------------------------------ values -------------------------------- *)

\* a JavaScript undefined: a body key that was not sent, an unset optional path
Undefined == "<undefined>"

Fields == <<"name", "email", "password", "phone", "profilePicture">>
FieldSet == {Fields[i] : i \in 1..Len(Fields)}

Emails == {"a@x.com", "b@x.com"}
Picture == "https://cdn.example.com/avatars/0001.png"

Truthy(v) == v # Undefined /\ v # ""

Has(body, f) == body[f] # Undefined

(* --------------------------- string helpers --------------------------- *)

Contains(s, sub) ==
    \E i \in 1..(Len(s) - Len(sub) + 1) : SubSeq(s, i, i + Len(sub) - 1) = sub

RECURSIVE Rev(_)
Rev(s) == IF Len(s) = 0 THEN "" ELSE Rev(SubSeq(s, 2, Len(s))) \o SubSeq(s, 1, 1)

\* String.prototype.substring(0, n)
Substring(s, n) == IF Len(s) <= n THEN s ELSE SubSeq(s, 1, n)

\* the members of a flat JSON object of strings: the keys that are present, in
\* order; the values of the keys in bare are written without their quotes
RECURSIVE Members(_, _, _, _)
Members(body, i, first, bare) ==
    IF i > Len(Fields) THEN ""
    ELSE IF ~Has(body, Fields[i]) THEN Members(body, i + 1, first, bare)
    ELSE (IF first THEN "" ELSE ",")
         \o "\"" \o Fields[i] \o "\":"
         \o (IF Fields[i] \in bare THEN body[Fields[i]]
             ELSE "\"" \o body[Fields[i]] \o "\"")
         \o Members(body, i + 1, FALSE, bare)

\* JSON.stringify
Stringify(body) == "{" \o Members(body, 1, TRUE, {}) \o "}"

\* the request payload on the wire: JSON, or, from a client that forgot to
\* quote the secret, text that is not JSON
Wire(body, valid) ==
    "{" \o Members(body, 1, TRUE, IF valid THEN {} ELSE {"password"}) \o "}"

\* the (0-based) offset at which JSON.parse gives up on such a payload: the
\* first character of the bare value
ErrorPos(wire) ==
    LET k == "\"password\":"
        at == CHOOSE i \in 1..(Len(wire) - Len(k) + 1) : SubSeq(wire, i, i + Len(k) - 1) = k
    IN  at + Len(k) - 1

ContextChars == 10

\* the message of the SyntaxError JSON.parse throws. It is the runtime's: one
\* that names the token and its offset, or one that quotes the source around
\* the token (all of it when shorter than 2 * ContextChars + 1 characters, else
\* ContextChars either side)
JsonErrorMessage(style, wire, pos) ==
    LET n == Len(wire)
        token == SubSeq(wire, pos + 1, pos + 1)
        Slice(from, to) == SubSeq(wire, from + 1, IF to < n THEN to ELSE n)
    IN  IF style = "offset"
        THEN "Unexpected token " \o token \o " in JSON at position " \o ToString(pos)
        ELSE "Unexpected token '" \o token \o "', "
             \o (IF n < 2 * ContextChars + 1 THEN "\"" \o wire \o "\""
                 ELSE IF pos < ContextChars
                 THEN "\"" \o Slice(0, pos + ContextChars) \o "\"..."
                 ELSE IF pos < n - ContextChars
                 THEN "...\"" \o Slice(pos - ContextChars, pos + ContextChars) \o "\"..."
                 ELSE "...\"" \o Slice(pos - ContextChars, n) \o "\"")
             \o " is not valid JSON"

ErrorStyles == {"offset", "context"}

(* ------------------------ Secret Hasher, tokens ----------------------- *)

\* bcrypt hash of a plaintext (User model pre-save hook): a tagged one-way image
HashSecret(plain) == "$2a$10$" \o Rev(plain)

\* user.matchPassword(entered): bcrypt.compare of the entered secret and the hash
MatchPassword(entered, hashed) == hashed = HashSecret(entered)

NoToken == [id |-> 0, expiresInDays |-> 0]

SignupToken_NoId(doc) == [id |-> 0, expiresInDays |-> TokenTTLDays]

\* jwt.sign({ id: user._id }, JWT_SECRET, { expiresIn: '30d' })
SignupToken(doc) == [id |-> doc.id, expiresInDays |-> TokenTTLDays]

LoginToken(doc) == [id |-> doc.id, expiresInDays |-> TokenTTLDays]

(* ------------------------------ the store ----------------------------- *)

NoDoc == [id |-> 0, name |-> Undefined, email |-> Undefined, password |-> Undefined,
          phone |-> Undefined, profilePicture |-> Undefined]

\* User.findOne({ email }): the first document in insertion order
RECURSIVE FindOne(_, _)
FindOne(st, email) ==
    IF st = <<>> THEN NoDoc
    ELSE IF Head(st).email = email THEN Head(st)
    ELSE FindOne(Tail(st), email)

\* User.findById(id)
RECURSIVE FindById(_, _)
FindById(st, id) ==
    IF st = <<>> THEN NoDoc
    ELSE IF Head(st).id = id THEN Head(st)
    ELSE FindById(Tail(st), id)

\* the paths of a loaded document that assignments have changed
Modified(loaded, doc) == {f \in FieldSet : loaded[f] # doc[f]}

\* pre-save hook: the secret is hashed when (and only when) its path was modified
PreSave(doc, mod) ==
    IF "password" \in mod THEN [doc EXCEPT !.password = HashSecret(doc.password)]
    ELSE doc

\* save() of a new document: insert
Insert(st, doc) == Append(st, PreSave(doc, FieldSet))

\* save() of a loaded document: $set of the modified paths on the stored document
Merge(old, loaded, doc) ==
    [f \in DOMAIN old |->
        IF f \in Modified(loaded, doc) THEN PreSave(doc, Modified(loaded, doc))[f]
        ELSE old[f]]

RECURSIVE Update(_, _, _)
Update(st, loaded, doc) ==
    IF st = <<>> THEN <<>>
    ELSE <<IF Head(st).id = doc.id THEN Merge(Head(st), loaded, doc) ELSE Head(st)>>
         \o Update(Tail(st), loaded, doc)

(* ------------------------------ responses ----------------------------- *)

\* a response: the HTTP status and the keys of the JSON body (state is the
\* body's own status key)
Resp(status, error, message, token, user) ==
    [status |-> status, error |-> error, message |-> message, token |-> token,
     user |-> user, state |-> Undefined, database |-> Undefined]

NoResp == Resp(0, Undefined, Undefined, NoToken, NoDoc)

SignupDuplicate == Resp(400, "Email already exists", Undefined, NoToken, NoDoc)
SignupCreated(doc) ==
    Resp(201, Undefined, "User created successfully", SignupToken(doc), NoDoc)
ServerError == Resp(500, "Server error", Undefined, NoToken, NoDoc)

LoginNoUser_NotFound == Resp(404, "User not found", Undefined, NoToken, NoDoc)

LoginNoUser == Resp(400, "Invalid credentials", Undefined, NoToken, NoDoc)
LoginMismatch == Resp(400, "Invalid credentials", Undefined, NoToken, NoDoc)
LoginOk(doc) == Resp(200, Undefined, Undefined, LoginToken(doc), NoDoc)

\* .select('-password'): the stored user without the secret hash
UserView(doc) == [doc EXCEPT !.password = Undefined]
ProfileOk(doc) == Resp(200, Undefined, Undefined, NoToken, UserView(doc))

UpdateNotFound == Resp(404, "User not found", Undefined, NoToken, NoDoc)
UpdateDuplicate == Resp(400, "Email already exists", Undefined, NoToken, NoDoc)
UpdateOk == Resp(200, Undefined, "Profile updated successfully", NoToken, NoDoc)
UpdateError == Resp(500, "Unable to update profile", Undefined, NoToken, NoDoc)

Unauthenticated == Resp(401, "Not authorized", Undefined, NoToken, NoDoc)

\* app.options('*'): 204, no body
Preflight == Resp(204, Undefined, Undefined, NoToken, NoDoc)

RootOk ==
    [Resp(200, Undefined, "Welcome to the API", NoToken, NoDoc) EXCEPT !.state = "healthy"]

HealthOk ==
    [Resp(200, Undefined, Undefined, NoToken, NoDoc)
        EXCEPT !.state = "ok", !.database = "connected"]

\* the catch of /health, with err.message
HealthDown(message) ==
    [Resp(503, message, Undefined, NoToken, NoDoc)
        EXCEPT !.state = "error", !.database = "disconnected"]

\* an error handed to next(err): its message and its code
Err(message, code) == [message |-> message, code |-> code]

\* the error-handling middleware: 403 with the message when the message holds
\* 'CORS', 504 for an ETIMEDOUT, else 500, with the message only in development
ErrorHandler(err, env) ==
    IF Contains(err.message, "CORS")
    THEN Resp(403, "Forbidden - CORS", err.message, NoToken, NoDoc)
    ELSE IF err.code = "ETIMEDOUT"
    THEN Resp(504, "Gateway Timeout", "Request took too long to process", NoToken, NoDoc)
    ELSE Resp(500, "Internal Server Error",
              IF env = "development" THEN err.message ELSE Undefined, NoToken, NoDoc)

\* the error-handling middleware gets as far as reading process.env.NODE_ENV
ReadsNodeEnv(err) == ~Contains(err.message, "CORS") /\ err.code # "ETIMEDOUT"

(* ------------------------------ requests ------------------------------ *)

Body(n, e, p, ph, pic) ==
    [name |-> n, email |-> e, password |-> p, phone |-> ph, profilePicture |-> pic]

EmptyBody == Body(Undefined, Undefined, Undefined, Undefined, Undefined)

NoHeader == [kind |-> "none", id |-> 0, key |-> "-", age |-> 0]
Malformed == [kind |-> "malformed", id |-> 0, key |-> "-", age |-> 0]
Bearer(id, key, age) == [kind |-> "bearer", id |-> id, key |-> key, age |-> age]

Secrets == {"pw1", "pw2"}

\* signups; logins for a@x.com with either secret and for b@x.com
SignupBodies == {Body("A", e, "pw1", "555", Picture) : e \in Emails}

LoginBodies ==
    {Body(Undefined, "a@x.com", p, Undefined, Undefined) : p \in Secrets}
    \cup {Body(Undefined, "b@x.com", "pw1", Undefined, Undefined)}

\* profile updates: every field at once, with each of the three email cases
\* (none, a@x.com, b@x.com); a name alone; an empty phone with a picture
Everything(e) == Body("A", e, "pw2", "777", Picture)

UpdateBodies ==
    {Everything(e) : e \in {Undefined} \cup Emails}
    \cup { Body("X", Undefined, Undefined, Undefined, Undefined),
           Body(Undefined, Undefined, Undefined, "", Picture) }

\* what a client may send as its Authorization header: nothing, garbage, a
\* token of the server's for one of the first two identifiers, or a token for
\* the first identifier that is forged or has expired (age in days when verified)
Headers ==
    {NoHeader, Malformed, Bearer(1, "forged", 0), Bearer(1, "server", TokenTTLDays)}
    \cup {Bearer(id, "server", 0) : id \in 1..2}

\* payloads that are not JSON: the secret, pw1 or CORS, is not quoted
BadBodies == {Body(Undefined, "a@x.com", p, Undefined, Undefined) : p \in {"pw1", "CORS"}}

\* a request slot: the request (op, hdr, body, and whether the body is valid
\* JSON), its connection (open, or gone once the client has left or the socket
\* was destroyed), the continuation that runs next (pc), the handler's locals
\* (loaded: the document as read; doc: the document with the handler's
\* assignments; uid: req.user.id), and, once answered, the branch that answered
Idle == [op |-> "-", hdr |-> NoHeader, body |-> EmptyBody, valid |-> TRUE, conn |-> "open",
         pc |-> "idle", loaded |-> NoDoc, doc |-> NoDoc, uid |-> 0, cause |-> "-"]

\* an answered request: its locals and its body are gone
Done(q, cause) == [Idle EXCEPT !.op = q.op, !.pc = "done", !.cause = cause]

\* the response a step writes with res.json, with the request it answers, and
\* whether there is still a connection to carry it to the client
Sent(q, resp) ==
    [op |-> q.op, hdr |-> q.hdr, body |-> q.body, resp |-> resp,
     delivered |-> q.conn = "open"]

NoSent == [op |-> "-", hdr |-> NoHeader, body |-> EmptyBody, resp |-> NoResp,
           delivered |-> FALSE]

(* ------------------------- startup bootstrap -------------------------- *)

\* the process ends: its requests and their locals go with it
Exit(code) ==
    /\ boot' = "exited"
    /\ exitCode' = code
    /\ reqs' = [r \in DOMAIN reqs |-> Idle]
    /\ sent' = NoSent

\* node server.js: the module is evaluated top to bottom. Both files call
\* connectWithRetry() first; connectDB ends the process there and then when
\* MONGODB_URI is missing, else mongoose.connect is left pending. The first file
\* then throws a ReferenceError at its CORS setup (allowedOrigins is declared
\* nowhere in it): nothing after that line runs, not the middleware, not
\* app.listen, not the SIGTERM and uncaughtException handlers, and the process
\* ends with code 1. The second file declares allowedOrigins, installs its
\* middleware and its SIGTERM handler, and listens.
Load ==
    /\ boot = "loading"
    /\ \E uri \in {"set", "missing"} :
         IF uri = "missing"
         THEN Exit(1) /\ console' = "MongoDB Connection Error"
         ELSE IF variant = "bounded"
         THEN Exit(1) /\ console' = "ReferenceError: allowedOrigins is not defined"
         ELSE /\ boot' = "connecting"
              /\ console' = "Server running on port"
              /\ sent' = NoSent
              /\ UNCHANGED <<exitCode, reqs>>
    /\ UNCHANGED <<variant, closing, nodeEnv, retryCount, store, nextId, arrived>>

\* connectDB(): resolves when mongoose.connect does; its own catch ends the
\* process, so the promise it returns is never rejected
ConnectDB(outcome) == IF outcome = "ok" THEN "resolved" ELSE "exit"

\* connectWithRetry(): the continuation of its await connectDB()
ConnectWithRetry ==
    /\ boot \in {"connecting", "waiting"}
    /\ \E outcome \in {"ok", "error"} :
         LET result == ConnectDB(outcome) IN
         IF result = "resolved"
         THEN /\ boot' = "connected"
              /\ console' = "MongoDB connected successfully"
              /\ sent' = NoSent
              /\ UNCHANGED <<retryCount, exitCode, reqs>>
         ELSE IF result = "exit"
         THEN /\ Exit(1)
              /\ console' = "MongoDB Connection Error"
              /\ UNCHANGED retryCount
         ELSE IF variant = "unbounded" \/ retryCount < MAX_RETRIES
         THEN /\ boot' = "waiting"
              /\ retryCount' = IF variant = "bounded" THEN retryCount + 1 ELSE retryCount
              /\ console' = "Retrying connection in 5 seconds..."
              /\ sent' = NoSent
              /\ UNCHANGED <<exitCode, reqs>>
         ELSE /\ Exit(1)
              /\ console' = "Maximum retries reached. Exiting..."
              /\ UNCHANGED retryCount
    /\ UNCHANGED <<variant, closing, nodeEnv, store, nextId, arrived>>

Alive == boot # "exited"

\* app.listen has run and the process has not exited. server.close only stops
\* the listener: a connection that is open (keep-alive) still carries requests
\* after SIGTERM, and they are handled until the process exits
Serving == boot \in {"connecting", "waiting", "connected"}

\* a store call completes only over an open connection
DbUp == boot = "connected"

InFlight(q) == q.pc \notin {"idle", "done"}

\* a request whose connection server.close waits for
Connected(q) == InFlight(q) /\ q.conn = "open"

\* process.on('SIGTERM'): server.close stops the listener; its callback waits
\* for the open connections. A repeated signal runs the handler again
Sigterm ==
    /\ Alive /\ boot # "loading"
    /\ closing' = TRUE
    /\ console' = "SIGTERM received. Shutting down gracefully..."
    /\ sent' = NoSent
    /\ UNCHANGED <<variant, boot, nodeEnv, retryCount, exitCode, store, nextId, reqs, arrived>>

\* the callbacks of server.close and mongoose.connection.close: the process
\* ends, whatever its handlers are waiting for
ServerClosed ==
    /\ Alive
    /\ closing
    /\ \A r \in DOMAIN reqs : ~Connected(reqs[r])
    /\ Exit(0)
    /\ console' = "MongoDB connection closed"
    /\ UNCHANGED <<variant, closing, nodeEnv, retryCount, store, nextId, arrived>>

(* --------------------------- request pipeline ------------------------- *)

\* the request logging middleware: the parsed body, cut to LogLimit characters,
\* or 'empty' when req.body is not set. It runs before the body parsers
LogLine(parsed, body) ==
    IF parsed THEN Substring(Stringify(body), LogLimit) \o "..." ELSE "empty"

ProtectedRoutes_None == {}

ProtectedRoutes == {"getProfile", "updateProfile"}

\* POST and PUT carry a body, which express.json reads off the socket; for a
\* GET it calls next() at once
HasBody(op) == op \in {"signup", "login", "updateProfile"}

FirstPc(op) ==
    IF op \in ProtectedRoutes THEN "protect"
    ELSE IF op = "signup" THEN "suFind"
    ELSE IF op = "login" THEN "liFind"
    ELSE IF op = "getProfile" THEN "gpFind"
    ELSE "upFind"

HandlerPc(op) == IF op = "getProfile" THEN "gpFind" ELSE "upFind"

Method(op) ==
    IF op \in {"signup", "login"} THEN "POST"
    ELSE IF op = "updateProfile" THEN "PUT" ELSE "GET"

Url(op) ==
    IF op = "signup" THEN "/api/auth/signup"
    ELSE IF op = "login" THEN "/api/auth/login"
    ELSE IF op = "health" THEN "/health"
    ELSE "/api/auth/profile"

\* a request to one of the four routes reaches the logging middleware
Arrive(op, body, valid) ==
    /\ Serving
    /\ arrived' = arrived + 1
    /\ console' = LogLine(FALSE, body)
    /\ sent' = NoSent
    /\ reqs' = [reqs EXCEPT ![arrived + 1] =
                  [Idle EXCEPT !.op = op, !.body = body, !.valid = valid,
                               !.pc = IF HasBody(op) THEN "parse" ELSE FirstPc(op)]]
    /\ UNCHANGED <<variant, boot, closing, nodeEnv, retryCount, exitCode, store, nextId>>

\* what console.error(err.message) prints when a store call fails
StoreErrorMessage == "Operation buffering timed out"

\* res.status(..).json(..): the request is answered
Answer(r, q, resp, cause) ==
    /\ reqs' = [reqs EXCEPT ![r] = Done(q, cause)]
    /\ sent' = Sent(q, resp)

\* the handler suspends at its next await
Continue(r, q) ==
    /\ reqs' = [reqs EXCEPT ![r] = q]
    /\ sent' = NoSent

\* the catch block: console.error(err.message) and the handler's 500
Fail(r, q, resp) ==
    /\ Answer(r, q, resp, "store")
    /\ console' = StoreErrorMessage
    /\ UNCHANGED <<store, nextId>>

\* a continuation that prints nothing and leaves the store alone
Quiet == console' = "" /\ UNCHANGED <<store, nextId>>

\* process.env.NODE_ENV is fixed for the run; the run settles it where the code
\* first reads it
NodeEnvs == IF nodeEnv = "unread" THEN {"development", "production"} ELSE {nodeEnv}

\* express.json has read the body: the route runs, or, when JSON.parse throws,
\* the error-handling middleware prints err.stack and answers
ParseBody(r) ==
    /\ Alive
    /\ reqs[r].pc = "parse"
    /\ LET q == reqs[r] IN
       IF q.valid
       THEN Continue(r, [q EXCEPT !.pc = FirstPc(q.op)]) /\ console' = "" /\ nodeEnv' = nodeEnv
       ELSE \E style \in ErrorStyles, env \in NodeEnvs :
              LET wire == Wire(q.body, q.valid)
                  err == Err(JsonErrorMessage(style, wire, ErrorPos(wire)), Undefined) IN
              /\ Answer(r, q, ErrorHandler(err, env), "parse")
              /\ console' = "API Error: SyntaxError: " \o err.message
              /\ nodeEnv' = IF ReadsNodeEnv(err) THEN env ELSE nodeEnv
    /\ UNCHANGED <<variant, boot, closing, retryCount, exitCode, store, nextId, arrived>>

\* the 15 s socket timeout. While the body is being read the request hears it:
\* the callback of req.setTimeout prints a warning and the request goes on.
\* Once the body is complete nothing listens (res.setTimeout has no callback)
\* and the socket is destroyed: nothing is printed, and the handler runs on
\* with no client
SocketTimeout(r) ==
    /\ Alive
    /\ Connected(reqs[r])
    /\ LET q == reqs[r] IN
       IF q.pc = "parse"
       THEN /\ console' = "Request timeout: " \o Method(q.op) \o " " \o Url(q.op)
            /\ reqs' = reqs
       ELSE /\ console' = ""
            /\ reqs' = [reqs EXCEPT ![r].conn = "gone"]
    /\ sent' = NoSent
    /\ UNCHANGED <<variant, boot, closing, nodeEnv, retryCount, exitCode, store, nextId,
                   arrived>>

\* what express.json hands to next(err) when the request is aborted
AbortedError == Err("request aborted", "ECONNABORTED")

\* the client drops the connection. While the body is being read express.json
\* fails and the error-handling middleware runs; later nothing hears of it and
\* the handler runs on with no client
ClientAbort(r) ==
    /\ Alive
    /\ Connected(reqs[r])
    /\ LET q == [reqs[r] EXCEPT !.conn = "gone"] IN
       IF q.pc = "parse"
       THEN \E env \in NodeEnvs :
              /\ Answer(r, q, ErrorHandler(AbortedError, env), "aborted")
              /\ console' = "API Error: BadRequestError: " \o AbortedError.message
              /\ nodeEnv' = IF ReadsNodeEnv(AbortedError) THEN env ELSE nodeEnv
       ELSE /\ Continue(r, q)
            /\ console' = ""
            /\ nodeEnv' = nodeEnv
    /\ UNCHANGED <<variant, boot, closing, retryCount, exitCode, store, nextId, arrived>>

\* OPTIONS, any path: answered by app.options('*') ahead of the logging middleware
Options ==
    /\ Serving
    /\ console' = ""
    /\ sent' = [NoSent EXCEPT !.op = "options", !.resp = Preflight, !.delivered = TRUE]
    /\ UNCHANGED <<variant, boot, closing, nodeEnv, retryCount, exitCode, store, nextId,
                   reqs, arrived>>

\* GET /
Root ==
    /\ Serving
    /\ console' = LogLine(FALSE, EmptyBody)
    /\ sent' = [NoSent EXCEPT !.op = "root", !.resp = RootOk, !.delivered = TRUE]
    /\ UNCHANGED <<variant, boot, closing, nodeEnv, retryCount, exitCode, store, nextId,
                   reqs, arrived>>

\* what reading .command of an unset mongoose.connection.db throws
NoDbMessage == "Cannot read properties of undefined (reading 'command')"

\* GET /health: mongoose.connection.db is set once the connection is open
Health ==
    /\ Serving
    /\ arrived' = arrived + 1
    /\ console' = LogLine(FALSE, EmptyBody)
    /\ LET q == [Idle EXCEPT !.op = "health", !.pc = "hPing"] IN
       IF ~DbUp THEN Answer(arrived + 1, q, HealthDown(NoDbMessage), "nodb")
       ELSE Continue(arrived + 1, q)
    /\ UNCHANGED <<variant, boot, closing, nodeEnv, retryCount, exitCode, store, nextId>>

\* the continuation of await db.command({ ping: 1 })
HealthPing(r) ==
    /\ Alive
    /\ reqs[r].pc = "hPing"
    /\ Answer(r, reqs[r], HealthOk, "ping")
    /\ Quiet
    /\ UNCHANGED proc

(* ----------------------------- Request Gate --------------------------- *)

\* jwt.verify: the signature is the server's and the token has not expired
Verify(hdr) == hdr.kind = "bearer" /\ hdr.key = "server" /\ hdr.age < TokenTTLDays

\* the gate reads the Authorization header the client sent with the request
Protect(r, hdr) ==
    /\ Alive
    /\ reqs[r].pc = "protect"
    /\ LET q == [reqs[r] EXCEPT !.hdr = hdr] IN
       IF ~Verify(hdr) THEN Answer(r, q, Unauthenticated, "token") /\ Quiet
       ELSE IF ~DbUp THEN Fail(r, q, ServerError)
       ELSE IF FindById(store, hdr.id) = NoDoc
       THEN Answer(r, q, Unauthenticated, "nouser") /\ Quiet
       ELSE Continue(r, [q EXCEPT !.uid = hdr.id, !.pc = HandlerPc(q.op)]) /\ Quiet
    /\ UNCHANGED proc

(* ------------------------------- signup ------------------------------- *)

SignupEmailTaken_Never(user) == FALSE

SignupEmailTaken(user) == user # NoDoc

\* new User({ name, email, password, phone, profilePicture })
NewUser(id, body) ==
    [id |-> id, name |-> body.name, email |-> body.email, password |-> body.password,
     phone |-> body.phone, profilePicture |-> body.profilePicture]

SignupFind(r) ==
    /\ Alive
    /\ reqs[r].pc = "suFind"
    /\ LET q == reqs[r]
           user == FindOne(store, q.body.email) IN
       IF ~DbUp THEN Fail(r, q, ServerError)
       ELSE IF SignupEmailTaken(user) THEN Answer(r, q, SignupDuplicate, "duplicate") /\ Quiet
       ELSE /\ Continue(r, [q EXCEPT !.doc = NewUser(nextId, q.body), !.pc = "suSave"])
            /\ nextId' = nextId + 1
            /\ store' = store
            /\ console' = ""
    /\ UNCHANGED proc

SignupSave(r) ==
    /\ Alive
    /\ reqs[r].pc = "suSave"
    /\ LET q == reqs[r] IN
       IF ~DbUp THEN Fail(r, q, ServerError)
       ELSE /\ store' = Insert(store, q.doc)
            /\ Answer(r, q, SignupCreated(q.doc), "created")
            /\ nextId' = nextId
            /\ console' = ""
    /\ UNCHANGED proc

(* -------------------------------- login ------------------------------- *)

LoginFind(r) ==
    /\ Alive
    /\ reqs[r].pc = "liFind"
    /\ LET q == reqs[r]
           user == FindOne(store, q.body.email) IN
       IF ~DbUp THEN Fail(r, q, ServerError)
       ELSE IF user = NoDoc THEN Answer(r, q, LoginNoUser, "unknown") /\ Quiet
       ELSE Continue(r, [q EXCEPT !.loaded = user, !.pc = "liMatch"]) /\ Quiet
    /\ UNCHANGED proc

\* the awaited calls of login that have completed when the continuation at pc
\* runs: User.findOne, then user.matchPassword
Awaited(pc) == IF pc = "liFind" THEN 1 ELSE IF pc = "liMatch" THEN 2 ELSE 0

LoginMatch(r) ==
    /\ Alive
    /\ reqs[r].pc = "liMatch"
    /\ LET q == reqs[r] IN
       IF ~MatchPassword(q.body.password, q.loaded.password)
       THEN Answer(r, q, LoginMismatch, "mismatch")
       ELSE Answer(r, q, LoginOk(q.loaded), "match")
    /\ Quiet
    /\ UNCHANGED proc

(* ------------------------------- profile ------------------------------ *)

GetProfile(r) ==
    /\ Alive
    /\ reqs[r].pc = "gpFind"
    /\ LET q == reqs[r] IN
       IF ~DbUp THEN Fail(r, q, ServerError)
       ELSE Answer(r, q, ProfileOk(FindById(store, q.uid)), "found") /\ Quiet
    /\ UNCHANGED proc

UpdateEmailTaken_Never(existingUser) == FALSE

UpdateEmailTaken(existingUser) == existingUser # NoDoc

\* a full overwrite: every path assigned, supplied or not
ApplyFields_Overwrite(user, body) ==
    [user EXCEPT !.name = body.name, !.phone = body.phone,
                 !.profilePicture = body.profilePicture, !.password = body.password]

\* the secret is never assigned
ApplyFields_NoSecret(user, body) ==
    [user EXCEPT
        !.name = IF Truthy(body.name) THEN body.name ELSE @,
        !.phone = IF Truthy(body.phone) THEN body.phone ELSE @,
        !.profilePicture = IF Truthy(body.profilePicture) THEN body.profilePicture ELSE @]

\* if (name) user.name = name; ... if (password) user.password = password;
ApplyFields(user, body) ==
    [user EXCEPT
        !.name = IF Truthy(body.name) THEN body.name ELSE @,
        !.phone = IF Truthy(body.phone) THEN body.phone ELSE @,
        !.profilePicture = IF Truthy(body.profilePicture) THEN body.profilePicture ELSE @,
        !.password = IF Truthy(body.password) THEN body.password ELSE @]

\* email && email !== user.email
EmailChanges(user, body) == Truthy(body.email) /\ body.email # user.email

UpdateFind(r) ==
    /\ Alive
    /\ reqs[r].pc = "upFind"
    /\ LET q == reqs[r]
           user == FindById(store, q.uid) IN
       IF ~DbUp THEN Fail(r, q, UpdateError)
       ELSE IF user = NoDoc THEN Answer(r, q, UpdateNotFound, "notfound") /\ Quiet
       ELSE IF EmailChanges(user, q.body)
       THEN Continue(r, [q EXCEPT !.loaded = user, !.doc = user, !.pc = "upCheck"]) /\ Quiet
       ELSE /\ Continue(r, [q EXCEPT !.loaded = user, !.doc = ApplyFields(user, q.body),
                                     !.pc = "upSave"])
            /\ Quiet
    /\ UNCHANGED proc

UpdateCheck(r) ==
    /\ Alive
    /\ reqs[r].pc = "upCheck"
    /\ LET q == reqs[r]
           existingUser == FindOne(store, q.body.email) IN
       IF ~DbUp THEN Fail(r, q, UpdateError)
       ELSE IF UpdateEmailTaken(existingUser)
       THEN Answer(r, q, UpdateDuplicate, "duplicate") /\ Quiet
       ELSE /\ Continue(r, [q EXCEPT
                              !.doc = ApplyFields([q.doc EXCEPT !.email = q.body.email], q.body),
                              !.pc = "upSave"])
            /\ Quiet
    /\ UNCHANGED proc

UpdateSave(r) ==
    /\ Alive
    /\ reqs[r].pc = "upSave"
    /\ LET q == reqs[r] IN
       IF ~DbUp THEN Fail(r, q, UpdateError)
       ELSE /\ store' = Update(store, q.loaded, q.doc)
            /\ Answer(r, q, UpdateOk, "updated")
            /\ nextId' = nextId
            /\ console' = ""
    /\ UNCHANGED proc

(* --------------------------- specification ---------------------------- *)

Reqs == 1..MaxReqs

\* the store outlives the process: at startup it is empty or holds a user that an
\* earlier run signed up
Seed ==
    [id |-> 1, name |-> "A", email |-> "a@x.com", password |-> HashSecret("pw1"),
     phone |-> "555", profilePicture |-> Undefined]

Stores == {<<>>, <<Seed>>}

Init ==
    /\ variant \in {"bounded", "unbounded"}
    /\ boot = "loading"
    /\ closing = FALSE
    /\ nodeEnv = "unread"
    /\ retryCount = 0
    /\ exitCode = 0
    /\ store \in Stores
    /\ nextId = Len(store) + 1
    /\ reqs = [r \in Reqs |-> Idle]
    /\ arrived = 0
    /\ console = ""
    /\ sent = NoSent

CanArrive == arrived < MaxReqs

Next ==
    \/ Load
    \/ ConnectWithRetry
    \/ Sigterm
    \/ ServerClosed
    \/ \E b \in SignupBodies : CanArrive /\ Arrive("signup", b, TRUE)
    \/ \E b \in BadBodies : CanArrive /\ Arrive("signup", b, FALSE)
    \/ \E b \in LoginBodies : CanArrive /\ Arrive("login", b, TRUE)
    \/ CanArrive /\ Arrive("getProfile", EmptyBody, TRUE)
    \/ \E b \in UpdateBodies : CanArrive /\ Arrive("updateProfile", b, TRUE)
    \/ Options
    \/ Root
    \/ CanArrive /\ Health
    \/ \E r \in Reqs : HealthPing(r)
    \/ \E r \in Reqs : ParseBody(r)
    \/ \E r \in Reqs : SocketTimeout(r)
    \/ \E r \in Reqs : ClientAbort(r)
    \/ \E r \in Reqs, h \in Headers : Protect(r, h)
    \/ \E r \in Reqs : SignupFind(r)
    \/ \E r \in Reqs : SignupSave(r)
    \/ \E r \in Reqs : LoginFind(r)
    \/ \E r \in Reqs : LoginMatch(r)
    \/ \E r \in Reqs : GetProfile(r)
    \/ \E r \in Reqs : UpdateFind(r)
    \/ \E r \in Reqs : UpdateCheck(r)
    \/ \E r \in Reqs : UpdateSave(r)

Spec == Init /\ [][Next]_vars

(* ------------------------------- claims ------------------------------- *)

EmailInStore(st, email) == \E i \in 1..Len(st) : st[i].email = email

IdInStore(st, id) == \E i \in 1..Len(st) : st[i].id = id

\* request r ran its continuation at pc in this step
Ran(r, pc) == reqs[r].pc = pc /\ reqs'[r].pc # pc /\ Alive'

\* C1: no two user records in the store ever share the same email, whatever
\* the interleaving of concurrent Signup and UpdateProfile requests.
C1_EmailUnique ==
    \A i, j \in 1..Len(store) : i # j => store[i].email # store[j].email

\* C2: a Signup whose email exists in the store at the time of the lookup is
\* answered 400 'Email already exists' without a token, and the store (its
\* records and their number) is unchanged.
C2_DuplicateSignupRejected ==
    [][\A r \in Reqs :
          (Ran(r, "suFind") /\ DbUp /\ EmailInStore(store, reqs[r].body.email))
          => /\ reqs'[r].pc = "done"
             /\ sent'.resp.status = 400
             /\ sent'.resp.error = "Email already exists"
             /\ sent'.resp.token = NoToken
             /\ store' = store
             /\ Len(store') = Len(store)]_vars

C2_Witness ==
    /\ sent.op = "signup"
    /\ sent.delivered
    /\ sent.resp.status = 400
    /\ EmailInStore(store, sent.body.email)

C4_SignupCreatesOneUser ==
    [][/\ \A r \in Reqs :
            (Ran(r, "suSave") /\ DbUp)
            => /\ Len(store') = Len(store) + 1
               /\ SubSeq(store', 1, Len(store)) = store
               /\ store'[Len(store')].email = reqs[r].body.email
               /\ ~IdInStore(store, store'[Len(store')].id)
               /\ sent'.resp.status = 201
               /\ sent'.resp.message = "User created successfully"
               /\ sent'.resp.token.id = store'[Len(store')].id
       /\ sent'.resp.token # NoToken => IdInStore(store', sent'.resp.token.id)]_vars

C4_Witness ==
    /\ sent.op = "signup"
    /\ sent.delivered
    /\ sent.resp.status = 201
    /\ sent.resp.token # NoToken
    /\ \E i \in 1..Len(store) :
         store[i].id = sent.resp.token.id /\ store[i].email = sent.body.email

IsHash(s) == Len(s) > 7 /\ SubSeq(s, 1, 7) = "$2a$10$"

\* C5: the plaintext secret of a request body appears neither in a stored user
\* record (the stored secret is always a hash) nor in anything the service
\* writes to its log, the request logging middleware included.
C5_NoPlaintextSecret ==
    /\ \A p \in Secrets : ~Contains(console, p)
    /\ \A i \in 1..Len(store) :
         IsHash(store[i].password) /\ \A p \in Secrets : ~Contains(store[i].password, p)

HandlerPcs == {"gpFind", "upFind", "upCheck", "upSave"}

InHandler ==
    \A r \in Reqs :
        reqs[r].pc \in HandlerPcs
        => /\ Verify(reqs[r].hdr)
           /\ reqs[r].uid = reqs[r].hdr.id
           /\ IdInStore(store, reqs[r].uid)

Rec(st, id) == FindById(st, id)

PlainFields == {"name", "phone", "profilePicture"}

OthersUntouched(r) ==
    /\ Len(store') = Len(store)
    /\ \A i \in 1..Len(store) : store[i].id # reqs[r].uid => store'[i] = store[i]

C8_UpdateEmailConflict ==
    [][\A r \in Reqs :
          /\ (Ran(r, "upCheck") /\ DbUp /\ EmailInStore(store, reqs[r].body.email))
             => /\ reqs'[r].pc = "done"
                /\ sent'.resp.status = 400
                /\ sent'.resp.error = "Email already exists"
                /\ store' = store
          /\ (Ran(r, "upFind") /\ DbUp /\ IdInStore(store, reqs[r].uid)
              /\ Truthy(reqs[r].body.email))
             => /\ store' = store
                /\ reqs'[r].pc = IF reqs[r].body.email = Rec(store, reqs[r].uid).email
                                 THEN "upSave" ELSE "upCheck"
          /\ (Ran(r, "upSave") /\ DbUp) => sent'.resp.status = 200]_vars

C8_Witness ==
    /\ sent.op = "updateProfile"
    /\ sent.delivered
    /\ sent.resp.status = 400
    /\ sent.body = Everything("a@x.com")
    /\ Len(store) = 2
    /\ store[1] = Seed
    /\ store[2].id = sent.hdr.id /\ store[2].email = "b@x.com" /\ store[2].phone = "555"

C10_RetriesBeforeExit ==
    (boot = "exited"
     /\ console \in {"MongoDB Connection Error", "Maximum retries reached. Exiting..."})
    => (variant = "bounded" /\ retryCount = MAX_RETRIES /\ exitCode = 1)

====
